---- MODULE Spec2Model ----
(***************************************************************************)
(* DiffusionDet (src/transformers/models/diffusiondet): the diffusion      *)
(* process controller of modeling_diffusiondet.py.                         *)
(*                                                                         *)
(*   ddim_sample               the reverse sampling loop, one action per   *)
(*                             loop iteration, one for the code after it   *)
(*   inference                 the conversion of logits/boxes to results   *)
(*   prepare_diffusion_concat  ground-truth padding / subsampling and the  *)
(*                             forward corruption                          *)
(*   q_sample, predict_noise_from_start   the schedule round trip          *)
(*                                                                         *)
(* and of head.py ROIPooler (__init__, forward), assign_boxes_to_levels,   *)
(* apply_deltas and HeadDynamicK.forward, each called alone on bounded     *)
(* inputs (SpecCalls).                                                     *)
(*                                                                         *)
(* Tensors are sequences: a (bs, n, 4) tensor is a sequence of bs          *)
(* sequences of n rows.  The head is a learned function; its outputs are   *)
(* drawn from a small catalogue.  Logits are counted in units of ln 4, so  *)
(* that sigmoid and softmax are exact rationals: exp(l) = 4^l, and         *)
(* sigmoid(-1, 0, 1) = 0.2, 0.5, 0.8.  A score is a pair <<num, den>>.     *)
(* Normalised box coordinates of prepare_diffusion_concat are counted in   *)
(* units of 1e-4.                                                          *)
(***************************************************************************)
EXTENDS Integers, Sequences, FiniteSets, TLC

\* ------------------------------------------------------------------ bounds
MaxProposals == 2      \* config.num_proposals ranges over 1..MaxProposals
MaxSteps == 3          \* config.sample_step ranges over 1..MaxSteps in Spec
MaxBatch == 2          \* len(batched_inputs) ranges over 1..MaxBatch
NumClasses == 2        \* config.num_labels
MaxGT == 4             \* gt_boxes.shape[0] ranges over 0..MaxGT
snr_scale == 2         \* config.snr_scale
MaxRows == 6           \* num_proposals * max(batch, steps) stays within MaxRows
MaxPoolBoxes == 3      \* bs * num_proposals of a lone pooler call
MaxScales == 3         \* len(scales) ranges over 0..MaxScales
MaxDeltaRows == 2      \* rows of the boxes handed to a lone apply_deltas
MaxT == 3              \* timesteps 0..MaxT-1 of the schedule of the round trip
MaxHeads == 3          \* config.num_heads ranges over 1..MaxHeads

\* --------------------------------------------------------------- constants
num_timesteps == 1000  \* cosine_beta_schedule(1000); timesteps, = betas.shape
Eps == 1               \* 1e-4, the floor of the placeholder sizes
FullCoord == 10000     \* 1.0 in units of 1e-4
HalfCoord == 5000      \* 0.5 in units of 1e-4
canonical_box_size == 224  \* ROIPooler.__init__, default
canonical_level == 4       \* ROIPooler.__init__, default

VARIABLES
    num_proposals,        \* self.num_proposals
    sampling_timesteps,   \* self.sampling_timesteps
    bs,                   \* len(batched_inputs)
    use_nms,              \* self.use_nms
    use_focal,            \* self.use_focal or self.use_fed_loss
    pc,                   \* idle; loop, done, raised; prepared, pdc_raised; times, times_done
    step,                 \* index of the next pair of time_pairs (1-based)
    time,                 \* the pair of the last iteration
    time_next,
    img,                  \* the noisy box state
    outputs_class,        \* outputs_class[-1] of the last head call
    outputs_coord,        \* outputs_coord[-1] of the last head call
    keep_idx,             \* the mask of the last iteration
    num_remain,
    pred_noise,           \* pred_noise and x_start after the mask
    x_start,
    ensemble_score,
    ensemble_label,
    ensemble_coord,
    result,               \* the value ddim_sample returns
    head_calls,           \* number of calls of self.head
    head_x_shape,         \* shape of the box state handed to the last head call
    head_t,               \* the time_cond handed to the last head call
    randn_draws,          \* number of torch.randn / randn_like calls
    ddim_updates,         \* number of evaluations of the DDIM update
    nms_runs,             \* number of batched_nms calls in ddim_sample
    gt_boxes,             \* prepare_diffusion_concat: its argument
    select_mask,
    pdc_x_start,          \* x_start before the scale/shift of line 320
    diff_boxes,
    pdc_t,
    rng_sources,          \* the random number generators drawn from so far
    call_op,              \* the function of head.py / the schedule called alone
    call_in,              \* its arguments
    call_out              \* its return value, "raised" when it raises

vars == <<num_proposals, sampling_timesteps, bs, use_nms, use_focal, pc, step,
          time, time_next, img, outputs_class, outputs_coord, keep_idx,
          num_remain, pred_noise, x_start, ensemble_score, ensemble_label,
          ensemble_coord, result, head_calls, head_x_shape, head_t, randn_draws,
          ddim_updates, nms_runs, gt_boxes, select_mask, pdc_x_start,
          diff_boxes, pdc_t, rng_sources, call_op, call_in, call_out>>

cfgVars == <<num_proposals, sampling_timesteps, bs, use_nms, use_focal>>

sampleVars == <<step, time, time_next, img, outputs_class, outputs_coord,
                keep_idx, num_remain, pred_noise, x_start, ensemble_score,
                ensemble_label, ensemble_coord, result, head_calls, head_x_shape,
                head_t, randn_draws, ddim_updates, nms_runs>>

pdcVars == <<gt_boxes, select_mask, pdc_x_start, diff_boxes, pdc_t>>

callVars == <<call_op, call_in, call_out>>

None == "None"

\* the generators the code draws from
TorchRng == "torch"         \* torch.randn, torch.randn_like, torch.randint
PythonRandom == "random"    \* the module random: random.shuffle

\* ----------------------------------------------------------- sequence help
Range(s) == {s[i] : i \in 1..Len(s)}

RECURSIVE Flatten(_)
\* torch.cat(list, dim=0) of one-dimensional pieces
Flatten(ss) == IF ss = <<>> THEN <<>> ELSE Head(ss) \o Flatten(Tail(ss))

RECURSIVE MaskSelect(_, _)
\* tensor[mask] for a boolean mask over the rows: the rows whose mask entry
\* is True, in their original order
MaskSelect(rows, mask) ==
    IF rows = <<>> THEN <<>>
    ELSE (IF Head(mask) THEN <<Head(rows)>> ELSE <<>>)
         \o MaskSelect(Tail(rows), Tail(mask))

RECURSIVE CountTrue(_)
\* torch.sum(keep_idx)
CountTrue(mask) ==
    IF mask = <<>> THEN 0
    ELSE (IF Head(mask) THEN 1 ELSE 0) + CountTrue(Tail(mask))

\* ------------------------------------------------------------- time pairs
\* x.int(): truncation toward zero of the rational num/den (den > 0)
IntTrunc(num, den) ==
    IF num >= 0 THEN num \div den ELSE -((-num) \div den)

\* torch.linspace(start, end, steps)[i], i = 0..steps-1, then .int(); the
\* entry is taken in exact arithmetic (float32 rounding can lower an entry that
\* is an integer by one)
LinspaceInt(start, end, steps, i) ==
    IntTrunc(start * (steps - 1) + i * (end - start), steps - 1)

\* steps=self.sampling_timesteps + 1: the length of times
NumTimes(S) == S + 1

\* linspace started at 0: the -1 that ends the loop is never built
Times_FromZero(S) ==
    [j \in 1..NumTimes(S) |->
        LinspaceInt(0, num_timesteps - 1, NumTimes(S), NumTimes(S) - j)]

\* times = list(reversed(linspace(-1, T-1, S+1).int().tolist()))
Times(S) ==
    [j \in 1..NumTimes(S) |->
        LinspaceInt(-1, num_timesteps - 1, NumTimes(S), NumTimes(S) - j)]

\* zip(times[:-1], times[1:]) has one pair less than times has entries
NumPairs(S) == NumTimes(S) - 1

\* time_pairs = list(zip(times[:-1], times[1:]))
TimePairs(S) ==
    [j \in 1..NumPairs(S) |-> <<Times(S)[j], Times(S)[j + 1]>>]

\* ----------------------------------------------------------------- scores
\* exp(l) for a logit l counted in units of ln 4, times 4
ExpLogit(l) == 4 ^ (l + 1)

\* torch.sigmoid: exp(l) / (1 + exp(l)) as <<num, den>>
Sigmoid(l) == <<ExpLogit(l), ExpLogit(l) + ExpLogit(0)>>

\* a > b, a = b for scores <<num, den>> with positive denominators
ScoreGT(a, b) == a[1] * b[2] > b[1] * a[2]
ScoreEQ(a, b) == a[1] * b[2] = b[1] * a[2]

RECURSIVE SumExp(_)
SumExp(logits) ==
    IF logits = <<>> THEN 0 ELSE ExpLogit(Head(logits)) + SumExp(Tail(logits))

\* F.softmax(logits, dim=-1)[k]
Softmax(logits, k) == <<ExpLogit(logits[k]), SumExp(logits)>>

\* the 0.5 of ddim_sample (line 173) and of both batched_nms calls
threshold == <<1, 2>>

\* ------------------------------------------------------------------ boxes
\* corner-form boxes <<x1, y1, x2, y2>>
BoxArea(b) == (b[3] - b[1]) * (b[4] - b[2])

Min(a, b) == IF a < b THEN a ELSE b
Max(a, b) == IF a > b THEN a ELSE b

BoxInter(a, b) ==
    Max(0, Min(a[3], b[3]) - Max(a[1], b[1]))
    * Max(0, Min(a[4], b[4]) - Max(a[2], b[2]))

\* iou(a, b) > thr; 0/0 (two empty boxes) compares False, as NaN does
IoUAbove(a, b, thr) ==
    BoxInter(a, b) * thr[2] > thr[1] * (BoxArea(a) + BoxArea(b) - BoxInter(a, b))

\* ---------------------------------------------------------- head outputs
\* number of logits per proposal: num_classes with focal / federated loss,
\* num_classes + 1 (background last) otherwise
NumLogits(focal) == IF focal THEN NumClasses ELSE NumClasses + 1

\* one logit at value v, the others at -1
HotLogits(focal, c, v) ==
    [k \in 1..NumLogits(focal) |-> IF k = c THEN v ELSE -1]

\* what the head may return for one proposal: confident, at the threshold
\* exactly, confident on an overlapping box, and unconfident on an empty box
HeadRows(focal) ==
    { [logits |-> HotLogits(focal, 1, 1), box |-> <<0, 0, 4, 4>>],
      [logits |-> HotLogits(focal, NumLogits(focal), 0), box |-> <<0, 0, 4, 4>>],
      [logits |-> HotLogits(focal, 1, 1), box |-> <<0, 0, 4, 3>>],
      [logits |-> HotLogits(focal, 0, 0), box |-> <<6, 6, 6, 6>>] }

\* ----------------------------------------------------------------- topk
\* position g comes before position f in decreasing score order
Before(scores, g, f) ==
    \/ ScoreGT(scores[g], scores[f])
    \/ ScoreEQ(scores[g], scores[f]) /\ g < f

Rank(scores, f) ==
    Cardinality({g \in 1..Len(scores) : Before(scores, g, f)})

\* scores.topk(k): the positions of the k largest entries (ties to the lower
\* position), in decreasing order
TopK(scores, k) ==
    [r \in 1..k |-> CHOOSE f \in 1..Len(scores) : Rank(scores, f) = r - 1]

\* ------------------------------------------------------------------- nms
RECURSIVE NmsKeep(_, _, _, _, _)
NmsKeep(boxes, labels, thr, order, kept) ==
    IF order = <<>> THEN kept
    ELSE LET c == Head(order)
             suppressed == \E j \in Range(kept) :
                               /\ labels[j] = labels[c]
                               /\ IoUAbove(boxes[j], boxes[c], thr)
         IN NmsKeep(boxes, labels, thr, Tail(order),
                    IF suppressed THEN kept ELSE Append(kept, c))

\* ops.batched_nms(boxes, scores, idxs, iou_threshold): the kept positions in
\* decreasing score order; boxes suppress only boxes of their own class
BatchedNms(boxes, scores, labels, thr) ==
    NmsKeep(boxes, labels, thr, TopK(scores, Len(scores)), <<>>)

Gather(rows, idx) == [j \in 1..Len(idx) |-> rows[idx[j]]]

\* the three lines x = x[keep] after a batched_nms call
ApplyNms(det) ==
    LET keep == BatchedNms(det.box_pred, det.scores, det.labels, threshold)
    IN [box_pred |-> Gather(det.box_pred, keep),
        scores   |-> Gather(det.scores, keep),
        labels   |-> Gather(det.labels, keep)]

\* -------------------------------------------------------------- inference
\* lines 380-390: sigmoid scores of all (proposal, class) pairs, the
\* num_proposals best of them with the class and the box of each
InferenceFocal(cls_img, box_img, N) ==
    LET K == NumClasses
        flat == [f \in 1..(Len(cls_img) * K) |->
                    Sigmoid(cls_img[((f - 1) \div K) + 1][((f - 1) % K) + 1])]
        topk_indices == TopK(flat, N)
    IN [box_pred |-> [j \in 1..N |-> box_img[((topk_indices[j] - 1) \div K) + 1]],
        scores   |-> [j \in 1..N |-> flat[topk_indices[j]]],
        labels   |-> [j \in 1..N |-> (topk_indices[j] - 1) % K]]

\* line 406: softmax over all logits, the background (last) dropped, the best
\* remaining class of every proposal
InferenceSoftmax(cls_img, box_img) ==
    LET K == NumClasses
        best(i) == CHOOSE k \in 1..K :
                      \A k2 \in 1..K :
                         \/ cls_img[i][k] > cls_img[i][k2]
                         \/ cls_img[i][k] = cls_img[i][k2] /\ k <= k2
    IN [box_pred |-> box_img,
        scores   |-> [i \in 1..Len(cls_img) |-> Softmax(cls_img[i], best(i))],
        labels   |-> [i \in 1..Len(cls_img) |-> best(i) - 1]]

InferenceImage(cls_img, box_img, N, focal) ==
    IF focal THEN InferenceFocal(cls_img, box_img, N)
    ELSE InferenceSoftmax(cls_img, box_img)

\* the per-image loop body after the early return: optional suppression
InferencePerImage(cls_img, box_img, N, focal, nms) ==
    IF nms THEN ApplyNms(InferenceImage(cls_img, box_img, N, focal))
    ELSE InferenceImage(cls_img, box_img, N, focal)

\* the early return taken for sampling_timesteps = 1 as well
Inference_AlwaysEarly(box_cls, box_pred, N, S, focal, nms) ==
    LET d == InferenceImage(box_cls[1], box_pred[1], N, focal)
    IN [kind |-> "tensors", box_pred |-> d.box_pred,
        scores |-> d.scores, labels |-> d.labels]

\* inference(box_cls, box_pred).  With sampling_timesteps > 1 the loop returns
\* in its first iteration: the three tensors of image 0, unsuppressed.
\* Otherwise three lists with one entry per image.
Inference(box_cls, box_pred, N, S, focal, nms) ==
    IF S > 1
    THEN LET d == InferenceImage(box_cls[1], box_pred[1], N, focal)
         IN [kind |-> "tensors", box_pred |-> d.box_pred,
             scores |-> d.scores, labels |-> d.labels]
    ELSE LET d(b) == InferencePerImage(box_cls[b], box_pred[b], N, focal, nms)
         IN [kind     |-> "lists",
             box_pred |-> [b \in 1..Len(box_cls) |-> d(b).box_pred],
             scores   |-> [b \in 1..Len(box_cls) |-> d(b).scores],
             labels   |-> [b \in 1..Len(box_cls) |-> d(b).labels]]

\* ------------------------------------------------------ model_predictions
\* lines 142-146: x_start, one row per row of outputs_coord[-1]; a row is
\* named by the proposal it belongs to and carries that proposal's box
XStartRows(coord) ==
    [b \in 1..Len(coord) |->
        [i \in 1..Len(coord[b]) |-> [of |-> "x_start", prop |-> i, box |-> coord[b][i]]]]

\* line 147: predict_noise_from_start(x, t, x_start), row by row
PredNoiseRows(x, xs) ==
    [b \in 1..Len(x) |->
        [i \in 1..Len(x[b]) |-> [of |-> "pred_noise", prop |-> xs[b][i].prop]]]

\* ------------------------------------------------------------ ddim_sample
\* line 162: torch.randn(shape)
InitialNoise(B, N) == [b \in 1..B |-> [i \in 1..N |-> [of |-> "randn"]]]

RECURSIVE MaxScore(_)
\* torch.max(torch.sigmoid(logits), -1)
MaxScore(logits) ==
    IF Len(logits) = 1 THEN Sigmoid(logits[1])
    ELSE LET m == MaxScore(Tail(logits))
         IN IF ScoreGT(Sigmoid(Head(logits)), m) THEN Sigmoid(Head(logits)) ELSE m

\* lines 172-176: the mask, computed from the scores of image 0
KeepIdx(cls) ==
    LET score_per_image == cls[1]
    IN [i \in 1..Len(score_per_image) |->
           ScoreGT(MaxScore(score_per_image[i]), threshold)]

\* x[:, keep_idx, :]
MaskRows(x, mask) == [b \in 1..Len(x) |-> MaskSelect(x[b], mask)]

\* the rows of img, each marked with its position
ImgRows(x) == [b \in 1..Len(x) |-> [i \in 1..Len(x[b]) |-> [of |-> "img", prop |-> i]]]

\* lines 187-197: the DDIM update, row by row, with fresh randn_like noise;
\* row j is computed from row j of x_start, of pred_noise and of the masked
\* img
DdimUpdate(xs, pn, im) ==
    [b \in 1..Len(im) |->
        [j \in 1..Len(im[b]) |->
            [of |-> "ddim", x_start |-> xs[b][j].prop, pred_noise |-> pn[b][j].prop,
             img |-> im[b][j].prop]]]

\* no boxes drawn for the dropped slots
RenewalNoise_None(N, remain) == << <<>> >>

\* line 199: torch.randn(1, self.num_proposals - num_remain, 4)
RenewalNoise(N, remain) == <<[j \in 1..(N - remain) |-> [of |-> "renew"]]>>

\* torch.cat((a, b), dim=1) needs equal sizes in every other dimension
CatRaises(a, b) == Len(a) # Len(b)
\* the second tensor left out of the concatenation
CatDim1_First(a, b) == a

\* the second tensor put in front of the first
CatDim1_Swapped(a, b) == [k \in 1..Len(a) |-> b[k] \o a[k]]

CatDim1(a, b) == [k \in 1..Len(a) |-> a[k] \o b[k]]

\* the ensemble returned as concatenated, use_nms ignored
EnsembleResult_NoNms(coord, score, label, nms) ==
    [kind |-> "tensors", box_pred |-> Flatten(coord),
     scores |-> Flatten(score), labels |-> Flatten(label)]

\* lines 208-219: the ensemble after the loop
EnsembleResult(coord, score, label, nms) ==
    LET det == [box_pred |-> Flatten(coord), scores |-> Flatten(score),
                labels |-> Flatten(label)]
        out == IF nms THEN ApplyNms(det) ELSE det
    IN [kind |-> "tensors", box_pred |-> out.box_pred,
        scores |-> out.scores, labels |-> out.labels]

\* the for statement of line 166: is there another pair
HasPair(S, k) == k \in 1..NumPairs(S)

\* the check of the end of the schedule left out
IsTerminal_Never(t_next) == FALSE

\* line 183: if time_next < 0
IsTerminal(t_next) == t_next < 0

\* lines 201-206: do this step's predictions join the ensemble
JoinsEnsemble(S) == S > 1

\* ---------------------------------------------------------------- actions
\* ddim_sample, lines 153-165
DdimBegin ==
    /\ pc = "idle"
    /\ pc' = "loop"
    /\ step' = 1
    /\ img' = InitialNoise(bs, num_proposals)
    /\ randn_draws' = 1
    /\ rng_sources' = rng_sources \cup {TorchRng}
    /\ ensemble_score' = <<>>
    /\ ensemble_label' = <<>>
    /\ ensemble_coord' = <<>>
    /\ UNCHANGED <<time, time_next, outputs_class, outputs_coord, keep_idx,
                   num_remain, pred_noise, x_start, result, head_calls,
                   head_x_shape, head_t, ddim_updates, nms_runs>>
    /\ UNCHANGED cfgVars
    /\ UNCHANGED callVars
    /\ UNCHANGED pdcVars

\* one iteration of the loop, lines 166-206
DdimStep ==
    /\ pc = "loop"
    /\ HasPair(sampling_timesteps, step)
    /\ \E h \in [1..Len(img) -> [1..Len(img[1]) -> HeadRows(use_focal)]] :
        LET t      == TimePairs(sampling_timesteps)[step][1]
            t_next == TimePairs(sampling_timesteps)[step][2]
            cls    == [b \in 1..Len(img) |-> [i \in 1..Len(img[1]) |-> h[b][i].logits]]
            crd    == [b \in 1..Len(img) |-> [i \in 1..Len(img[1]) |-> h[b][i].box]]
            keep   == KeepIdx(cls)
            remain == CountTrue(keep)
            xs     == MaskRows(XStartRows(crd), keep)
            pn     == MaskRows(PredNoiseRows(img, XStartRows(crd)), keep)
            im     == MaskRows(ImgRows(img), keep)
            upd    == DdimUpdate(xs, pn, im)
            fresh  == RenewalNoise(num_proposals, remain)
            inf    == Inference(cls, crd, num_proposals, sampling_timesteps,
                                use_focal, use_nms)
        IN /\ time' = t
           /\ time_next' = t_next
           /\ head_calls' = head_calls + 1
           /\ head_x_shape' = <<Len(img), Len(img[1]), 4>>
           /\ head_t' = [b \in 1..bs |-> t]
           /\ outputs_class' = cls
           /\ outputs_coord' = crd
           /\ keep_idx' = keep
           /\ num_remain' = remain
           /\ pred_noise' = pn
           /\ x_start' = xs
           /\ IF IsTerminal(t_next)
              THEN /\ img' = xs
                   /\ step' = step + 1
                   /\ UNCHANGED <<pc, randn_draws, rng_sources, ddim_updates,
                                  ensemble_score, ensemble_label, ensemble_coord>>
              ELSE IF CatRaises(upd, fresh)
              THEN /\ img' = upd
                   /\ pc' = "raised"
                   /\ randn_draws' = randn_draws + 2
                   /\ rng_sources' = rng_sources \cup {TorchRng}
                   /\ ddim_updates' = ddim_updates + 1
                   /\ UNCHANGED <<step, ensemble_score, ensemble_label,
                                  ensemble_coord>>
              ELSE /\ img' = CatDim1(upd, fresh)
                   /\ step' = step + 1
                   /\ randn_draws' = randn_draws + 2
                   /\ rng_sources' = rng_sources \cup {TorchRng}
                   /\ ddim_updates' = ddim_updates + 1
                   /\ IF JoinsEnsemble(sampling_timesteps)
                      THEN /\ ensemble_score' = Append(ensemble_score, inf.scores)
                           /\ ensemble_label' = Append(ensemble_label, inf.labels)
                           /\ ensemble_coord' = Append(ensemble_coord, inf.box_pred)
                      ELSE UNCHANGED <<ensemble_score, ensemble_label, ensemble_coord>>
                   /\ UNCHANGED pc
    /\ UNCHANGED <<result, nms_runs>>
    /\ UNCHANGED cfgVars
    /\ UNCHANGED callVars
    /\ UNCHANGED pdcVars

\* the code after the loop, lines 208-221
DdimReturn ==
    /\ pc = "loop"
    /\ ~HasPair(sampling_timesteps, step)
    /\ IF sampling_timesteps > 1
       THEN IF ensemble_coord = <<>>
            THEN /\ pc' = "raised"
                 /\ UNCHANGED <<result, nms_runs>>
            ELSE /\ pc' = "done"
                 /\ result' = EnsembleResult(ensemble_coord, ensemble_score,
                                             ensemble_label, use_nms)
                 /\ nms_runs' = nms_runs + (IF use_nms THEN 1 ELSE 0)
       ELSE /\ pc' = "done"
            /\ result' = Inference(outputs_class, outputs_coord, num_proposals,
                                   sampling_timesteps, use_focal, use_nms)
            /\ UNCHANGED nms_runs
    /\ UNCHANGED <<step, time, time_next, img, outputs_class, outputs_coord,
                   keep_idx, num_remain, pred_noise, x_start, ensemble_score,
                   ensemble_label, ensemble_coord, head_calls, head_x_shape,
                   head_t, randn_draws, rng_sources, ddim_updates>>
    /\ UNCHANGED cfgVars
    /\ UNCHANGED callVars
    /\ UNCHANGED pdcVars

\* ----------------------------------------------- prepare_diffusion_concat
\* ground-truth boxes (cx, cy, w, h), normalised, in units of 1e-4
GtBoxes == { <<2500, 2500, 2000, 2000>>, <<7000, 6000, 4000, 3000>> }

GtBoxSets == UNION { [1..n -> GtBoxes] : n \in 0..MaxGT }

\* line 305: the box standing in for an empty ground truth
FakeGtBox == <<HalfCoord, HalfCoord, FullCoord, FullCoord>>

\* values of torch.randn(4) / 6. + 0.5: sizes below zero, zero, at the floor
\* and ordinary ones
PlaceholderDraws ==
    { <<5000, 5000, -1200, 0>>, <<4100, 6300, 1, 2500>>, <<-300, 10400, 5000, 5000>> }

\* values of torch.randint(0, self.num_timesteps, (1,))
TimestepDraws == {0, num_timesteps - 1}

\* sizes floored at 0 instead of 1e-4
ClipMin_Zero(v) == IF v < 0 THEN 0 ELSE v

\* torch.clip(v, min=1e-4)
ClipMin(v) == IF v < Eps THEN Eps ELSE v

\* line 311: box_placeholder[:, 2:] = torch.clip(box_placeholder[:, 2:], min=1e-4)
ClipSizes(box) == <<box[1], box[2], ClipMin(box[3]), ClipMin(box[4])>>

\* one True too few in the mask
InitialMask_OffByOne(N, num_gt) == [i \in 1..num_gt |-> i < N]

\* line 314: [True] * num_proposals + [False] * (num_gt - num_proposals)
InitialMask(N, num_gt) == [i \in 1..num_gt |-> i <= N]

\* line 315: random.shuffle(select_mask), every order of the list
Shuffles(list) ==
    { [i \in 1..Len(list) |-> list[p[i]]] : p \in Permutations(1..Len(list)) }

\* lines 303-318: x_start before the scale/shift
PadOrSelect(gt, N, raw, mask) ==
    LET boxes  == IF Len(gt) = 0 THEN <<FakeGtBox>> ELSE gt
        num_gt == Len(boxes)
    IN IF num_gt < N
       THEN boxes \o [j \in 1..(N - num_gt) |-> ClipSizes(raw[j])]
       ELSE IF num_gt > N
       THEN MaskSelect(boxes, mask)
       ELSE boxes

\* line 320: x_start = (x_start * 2. - 1.) * self.scale
ScaleShift(box) == [c \in 1..4 |-> (2 * box[c] - FullCoord) * snr_scale]

\* a (m, 4) tensor combined elementwise with a (n, 4) tensor: the number of
\* rows of the result, -1 when the shapes do not broadcast
BroadcastRows(m, n) ==
    IF m = n THEN n ELSE IF m = 1 THEN n ELSE IF n = 1 THEN m ELSE -1

\* lines 323-328: q_sample against the (num_proposals, 4) noise, then the
\* clamp, the rescaling and box_convert, row by row
Diffuse(xs, N, t) ==
    [j \in 1..BroadcastRows(Len(xs), N) |->
        [of  |-> "diffused",
         x0  |-> ScaleShift(xs[IF Len(xs) = 1 THEN 1 ELSE j]),
         eps |-> IF N = 1 THEN 1 ELSE j,
         t   |-> t]]

\* prepare_diffusion_concat(gt_boxes), lines 295-330
PrepareDiffusionConcat ==
    /\ pc = "idle"
    /\ \E gt \in GtBoxSets, t \in TimestepDraws :
       \E raw \in [1..(num_proposals - Max(Len(gt), 1)) -> PlaceholderDraws] :
       \E mask \in Shuffles(InitialMask(num_proposals, Max(Len(gt), 1))) :
          LET xs == PadOrSelect(gt, num_proposals, raw, mask)
          IN /\ gt_boxes' = gt
             /\ pdc_t' = t
             /\ select_mask' = IF Max(Len(gt), 1) > num_proposals THEN mask ELSE None
             /\ pdc_x_start' = xs
             /\ randn_draws' = randn_draws + 1
                               + (IF Max(Len(gt), 1) < num_proposals THEN 1 ELSE 0)
             /\ rng_sources' = rng_sources \cup {TorchRng}
                                \cup (IF Max(Len(gt), 1) > num_proposals
                                      THEN {PythonRandom} ELSE {})
             /\ IF BroadcastRows(Len(xs), num_proposals) < 0
                THEN /\ pc' = "pdc_raised"
                     /\ diff_boxes' = None
                ELSE /\ pc' = "prepared"
                     /\ diff_boxes' = Diffuse(xs, num_proposals, t)
    /\ UNCHANGED <<step, time, time_next, img, outputs_class, outputs_coord,
                   keep_idx, num_remain, pred_noise, x_start, ensemble_score,
                   ensemble_label, ensemble_coord, result, head_calls,
                   head_x_shape, head_t, ddim_updates, nms_runs>>
    /\ UNCHANGED cfgVars
    /\ UNCHANGED callVars

\* ------------------------------------------------- the diffusion schedule
\* Real numbers are rationals <<num, den>> in lowest terms, den > 0.
RECURSIVE Gcd(_, _)
Gcd(a, b) == IF b = 0 THEN a ELSE Gcd(b, a % b)

Abs(a) == IF a < 0 THEN 0 - a ELSE a

RNorm(x) ==
    LET g == Gcd(Abs(x[1]), Abs(x[2]))
        sign == IF x[2] < 0 THEN 0 - 1 ELSE 1
    IN <<sign * (x[1] \div g), sign * (x[2] \div g)>>

RAdd(x, y) == RNorm(<<x[1] * y[2] + y[1] * x[2], x[2] * y[2]>>)
RSub(x, y) == RNorm(<<x[1] * y[2] - y[1] * x[2], x[2] * y[2]>>)
RMul(x, y) == RNorm(<<x[1] * y[1], x[2] * y[2]>>)
RDiv(x, y) == RNorm(<<x[1] * y[2], x[2] * y[1]>>)

\* the root of a square number
ISqrt(n) == CHOOSE r \in 0..n : r * r = n

\* torch.sqrt of the square of a rational
RSqrt(x) == <<ISqrt(x[1]), ISqrt(x[2])>>

ROne == <<1, 1>>

\* line 87: alphas_cumprod[t].  The values of the cosine schedule are
\* irrational; in their place stands a schedule with 0 < alphas_cumprod < 1,
\* decreasing in t, of which every buffer of lines 93-96 is rational:
\* 9/25, 25/169, 49/625, ... (squares of the legs of Pythagorean triples).
AlphasCumprod(t) ==
    LET n == t + 1
    IN <<(2 * n + 1) * (2 * n + 1),
         (2 * n * (n + 1) + 1) * (2 * n * (n + 1) + 1)>>

\* the square root of line 93 left out
SqrtOneMinusAlphasCumprod_NoSqrt(t) == RSub(ROne, AlphasCumprod(t))

\* lines 93-96: the buffers, each computed from alphas_cumprod
SqrtOneMinusAlphasCumprod(t) == RSqrt(RSub(ROne, AlphasCumprod(t)))
SqrtAlphasCumprod(t) == RSqrt(AlphasCumprod(t))
SqrtRecipAlphasCumprod(t) == RSqrt(RDiv(ROne, AlphasCumprod(t)))
SqrtRecipm1AlphasCumprod(t) == RSqrt(RSub(RDiv(ROne, AlphasCumprod(t)), ROne))

\* q_sample(x_start, t, noise), lines 223-230, on one row
QSample(xs, t, noise) ==
    [c \in 1..Len(xs) |->
        RAdd(RMul(SqrtAlphasCumprod(t), xs[c]),
             RMul(SqrtOneMinusAlphasCumprod(t), noise[c]))]

\* predict_noise_from_start(x_t, t, x0), lines 129-133, on one row
PredictNoiseFromStart(x_t, t, x0) ==
    [c \in 1..Len(x_t) |->
        RDiv(RSub(RMul(SqrtRecipAlphasCumprod(t), x_t[c]), x0[c]),
             SqrtRecipm1AlphasCumprod(t))]

\* ================================================================ head.py
\* A scale is the rational <<num, den>>; the scales drawn are 1/den or num/1.
\* A Python value handed as output_size is [tuple, elems]: elems holds the
\* elements of a tuple, or the one scalar, each as [type, v].

\* a raised exception (AssertionError, ValueError, IndexError, TypeError)
Raised == [raised |-> TRUE]

RECURSIVE Log2Floor(_)
\* int(math.log2(n)) of an integer n >= 1
Log2Floor(n) == IF n < 2 THEN 0 ELSE 1 + Log2Floor(n \div 2)

\* math.isclose(math.log2(n), int(math.log2(n))) of an integer n >= 1
IsPow2(n) == 2^Log2Floor(n) = n

\* lines 337-338: -(math.log2(scale)); int is int() of it, whole says
\* whether math.isclose(level, int(level))
NegLog2(scale) ==
    IF scale[1] = 1
    THEN [int |-> Log2Floor(scale[2]), whole |-> IsPow2(scale[2])]
    ELSE [int |-> 0 - Log2Floor(scale[1]), whole |-> IsPow2(scale[1])]

\* math.log2 raises ValueError outside its domain
Log2Raises(scale) == scale[1] <= 0

\* ROIPooler.__init__, lines 327-358
RoiPoolerInit(output_size, scales, box_size, level) ==
    IF scales = <<>> THEN Raised
    ELSE IF Log2Raises(scales[1]) \/ Log2Raises(scales[Len(scales)]) THEN Raised
    ELSE
    LET min_level == NegLog2(scales[1])
        max_level == NegLog2(scales[Len(scales)])
        is_int    == ~output_size.tuple /\ output_size.elems[1].type = "int"
        size      == IF is_int
                     THEN <<output_size.elems[1], output_size.elems[1]>>
                     ELSE output_size.elems
    IN  IF ~is_int /\ ~output_size.tuple THEN Raised
        ELSE IF ~(Len(size) = 2 /\ size[1].type = "int" /\ size[2].type = "int")
        THEN Raised
        ELSE IF ~(min_level.whole /\ max_level.whole) THEN Raised
        ELSE IF ~(Len(scales) = max_level.int - min_level.int + 1) THEN Raised
        ELSE IF ~(0 <= min_level.int /\ min_level.int <= max_level.int) THEN Raised
        ELSE IF ~(box_size > 0) THEN Raised
        ELSE [raised             |-> FALSE,
              output_size        |-> size,
              min_level          |-> min_level.int,
              max_level          |-> max_level.int,
              canonical_level    |-> level,
              canonical_box_size |-> box_size,
              level_poolers      |-> scales]

\* lines 12-19: row i of the (bs * num_proposals, 5) tensor is the index of
\* the image followed by the box, image after image
ConvertBoxesToPoolerFormat(bboxes) ==
    LET N == Len(bboxes[1])
    IN [i \in 1..(Len(bboxes) * N) |->
           [image |-> (i - 1) \div N,
            box   |-> bboxes[((i - 1) \div N) + 1][((i - 1) % N) + 1]]]

RECURSIVE Log2Up(_, _)
\* floor(log2(sqrt(area / sq))) for area >= sq
Log2Up(area, sq) == IF area >= 4 * sq THEN 1 + Log2Up(area \div 4, sq) ELSE 0

RECURSIVE Log2Down(_, _)
\* floor(log2(sqrt(area / sq))) for 0 < area < sq
Log2Down(area, sq) == IF area >= sq THEN 0 ELSE Log2Down(4 * area, sq) - 1

\* line 33: floor(log2(sqrt(area) / size + 1e-8)) for area >= 0.  For an
\* integer area > 0 the 1e-8 moves no value across a power of two; for
\* area = 0 it is floor(log2(1e-8)) = -27.
FloorLog2Size(area, size) ==
    IF area = 0 THEN 0 - 27
    ELSE IF area >= size * size THEN Log2Up(area, size * size)
    ELSE Log2Down(area, size * size)

\* torch.clamp(v, min=lo, max=hi)
Clamp(v, lo, hi) == IF v < lo THEN lo ELSE IF v > hi THEN hi ELSE v

\* the comparison with the available levels left out
AssignBoxesToLevels_NoClamp(bboxes, min_level, max_level, box_size, level) ==
    LET aggregated == ConvertBoxesToPoolerFormat(bboxes)
    IN [i \in 1..Len(aggregated) |->
           LET b    == aggregated[i].box
               area == (b[3] - b[1]) * (b[4] - b[2])
           IN (level + FloorLog2Size(area, box_size)) - min_level]

\* assign_boxes_to_levels, lines 22-37
AssignBoxesToLevels(bboxes, min_level, max_level, box_size, level) ==
    LET aggregated == ConvertBoxesToPoolerFormat(bboxes)
    IN [i \in 1..Len(aggregated) |->
           LET b    == aggregated[i].box
               area == (b[3] - b[1]) * (b[4] - b[2])
           IN Clamp(level + FloorLog2Size(area, box_size), min_level, max_level)
              - min_level]

\* RoIAlign(...)(x_level, boxes): one tile per row of boxes, in their order,
\* cut from the feature map of the row's image
RoIAlign(level, boxes) ==
    [k \in 1..Len(boxes) |->
        [level |-> level, image |-> boxes[k].image, box |-> boxes[k].box]]

\* line 378: torch.zeros
ZeroTile == [level |-> 0 - 1, image |-> 0 - 1, box |-> <<0, 0, 0, 0>>]

\* line 381: (level_assignments == level).nonzero(as_tuple=True)[0]
Nonzero(level_assignments, level) ==
    SelectSeq([i \in 1..Len(level_assignments) |-> i],
              LAMBDA i : level_assignments[i] = level)

\* the tiles written to the front of the output
IndexPut_Front(output, inds, values) ==
    [i \in 1..Len(output) |-> IF i <= Len(values) THEN values[i] ELSE output[i]]

\* line 384: output.index_put_((inds,), values)
IndexPut(output, inds, values) ==
    [i \in 1..Len(output) |->
        IF \E k \in 1..Len(inds) : inds[k] = i
        THEN values[CHOOSE k \in 1..Len(inds) : inds[k] = i]
        ELSE output[i]]

RECURSIVE PoolLevels(_, _, _, _, _)
\* lines 380-384: the loop over the levels, from level on
PoolLevels(output, level, num, level_assignments, boxes) ==
    IF level >= num THEN output
    ELSE LET inds == Nonzero(level_assignments, level)
             pooler_fmt_boxes_level == [k \in 1..Len(inds) |-> boxes[inds[k]]]
         IN PoolLevels(IndexPut(output, inds, RoIAlign(level, pooler_fmt_boxes_level)),
                       level + 1, num, level_assignments, boxes)

\* ROIPooler.forward, lines 360-386; x is given by its length and by the
\* batch size of its first feature map
RoiPoolerForward(pooler, x_len, x_batch, bboxes) ==
    LET num_level_assignments == Len(pooler.level_poolers)
        pooler_fmt_boxes == ConvertBoxesToPoolerFormat(bboxes)
    IN  IF ~(x_len = num_level_assignments /\ Len(bboxes) = x_batch) THEN Raised
        ELSE IF num_level_assignments = 1
        THEN [raised |-> FALSE, output |-> RoIAlign(0, pooler_fmt_boxes)]
        ELSE [raised |-> FALSE,
              output |-> PoolLevels(
                  [i \in 1..Len(pooler_fmt_boxes) |-> ZeroTile], 0,
                  num_level_assignments,
                  AssignBoxesToLevels(bboxes, pooler.min_level, pooler.max_level,
                                      pooler.canonical_box_size,
                                      pooler.canonical_level),
                  pooler_fmt_boxes)]

\* --------------------------------------------------------- apply_deltas
\* A delta row is (dx, dy, dw, dh) with dw and dh counted in units of ln 2, so
\* that exp is exact: exp(dw) = 2^dw.  The boxes returned are counted in
\* quarters of the unit of the boxes handed in: 0.5 * widths and dx / 2.0 of
\* an integer need them.

\* line 231: self.bbox_weights
bbox_weights == <<2, 2, 1, 1>>

\* lines 304 and 309: 2 * exp(clamp(dw, max=self.scale_clamp)) for dw >= -1.
\* scale_clamp is ln(1000 / 16) = 5.97 ln 2: every dw >= 6 is clamped to it,
\* and exp of it is 62.5.
TwiceExpClamped(dw) == IF dw >= 6 THEN 125 ELSE 2^(dw + 1)

\* pred_boxes = pred_ctr -+ pred_w, the 0.5 of lines 313-316 left out
ApplyDeltas_NoHalf(deltas, boxes) ==
    [i \in 1..Len(boxes) |->
        LET widths     == boxes[i][3] - boxes[i][1]
            heights    == boxes[i][4] - boxes[i][2]
            pred_ctr_x == ((4 * deltas[i][1] * widths) \div bbox_weights[1])
                          + 4 * boxes[i][1] + 2 * widths
            pred_ctr_y == ((4 * deltas[i][2] * heights) \div bbox_weights[2])
                          + 4 * boxes[i][2] + 2 * heights
            pred_w     == TwiceExpClamped(deltas[i][3] \div bbox_weights[3]) * widths
            pred_h     == TwiceExpClamped(deltas[i][4] \div bbox_weights[4]) * heights
        IN <<pred_ctr_x - 2 * pred_w, pred_ctr_y - 2 * pred_h,
             pred_ctr_x + 2 * pred_w, pred_ctr_y + 2 * pred_h>>]

\* apply_deltas, lines 280-318.  pred_ctr_x is 4 * (dx * widths + ctr_x) and
\* pred_w is 4 * (0.5 * exp(dw) * widths).
ApplyDeltas(deltas, boxes) ==
    [i \in 1..Len(boxes) |->
        LET widths     == boxes[i][3] - boxes[i][1]
            heights    == boxes[i][4] - boxes[i][2]
            pred_ctr_x == ((4 * deltas[i][1] * widths) \div bbox_weights[1])
                          + 4 * boxes[i][1] + 2 * widths
            pred_ctr_y == ((4 * deltas[i][2] * heights) \div bbox_weights[2])
                          + 4 * boxes[i][2] + 2 * heights
            pred_w     == TwiceExpClamped(deltas[i][3] \div bbox_weights[3]) * widths
            pred_h     == TwiceExpClamped(deltas[i][4] \div bbox_weights[4]) * heights
        IN <<pred_ctr_x - pred_w, pred_ctr_y - pred_h,
             pred_ctr_x + pred_w, pred_ctr_y + pred_h>>]

\* --------------------------------------------------- HeadDynamicK.forward
\* The stages are learned functions: what a stage returns is written as the
\* record of what it was applied to.  A box tensor is [of, stage, time,
\* input]: the caller's has stage 0 and nothing in time and input, the
\* refined boxes of stage k hold the embedding and the boxes stage k got.

\* line 98: self.time_mlp(t)
TimeMlp(t) == [of |-> "time_mlp", t |-> t]

\* the bboxes argument of forward
CallerBoxes(id) == [of |-> id, stage |-> 0, time |-> <<>>, input |-> <<>>]

\* line 107: ddet_head(features, bboxes, time) of stage k
DdetHead(k, bboxes, time_emb) ==
    [class_logits |-> [of |-> "class_logits", stage |-> k, time |-> <<time_emb>>,
                       input |-> <<bboxes>>],
     pred_bboxes  |-> [of |-> "pred_bboxes", stage |-> k, time |-> <<time_emb>>,
                       input |-> <<bboxes>>]]

\* every stage run on the boxes of the caller
NextBoxes_Unrefined(bboxes, pred_bboxes) == bboxes

\* line 111: bboxes = pred_bboxes.detach()
NextBoxes(bboxes, pred_bboxes) == pred_bboxes

RECURSIVE HeadSeries(_, _, _, _, _, _, _)
\* lines 106-111: the loop over self.head_series, from stage k on; inter is
\* the pair of lists, last the outputs of the stage before
HeadSeries(k, num_head, bboxes, time_emb, return_intermediate, inter, last) ==
    IF k > num_head THEN [inter |-> inter, last |-> last]
    ELSE LET out == DdetHead(k, bboxes, time_emb)
         IN HeadSeries(k + 1, num_head, NextBoxes(bboxes, out.pred_bboxes),
                       time_emb, return_intermediate,
                       IF return_intermediate THEN Append(inter, out) ELSE inter,
                       out)

\* HeadDynamicK.forward, lines 96-116
HeadForward(num_head, bboxes, t, return_intermediate) ==
    LET time_emb == TimeMlp(t)
        run == HeadSeries(1, num_head, bboxes, time_emb, return_intermediate,
                          <<>>, <<>>)
    IN IF return_intermediate
       THEN [class_logits |-> [k \in 1..Len(run.inter) |-> run.inter[k].class_logits],
             pred_bboxes  |-> [k \in 1..Len(run.inter) |-> run.inter[k].pred_bboxes]]
       ELSE [class_logits |-> <<run.last.class_logits>>,
             pred_bboxes  |-> <<run.last.pred_bboxes>>]

\* ------------------------------------------------- inputs of the lone calls
\* corner-form boxes (x1, y1, x2, y2) with x2 >= x1 and y2 >= y1, as the
\* conversion from (cx, cy, w >= 0, h >= 0) and apply_deltas produce them:
\* sides 0, 28, 56, 112 (twice), 223, 224, 448, 896
PoolBoxes ==
    { <<5, 5, 5, 5>>, <<0, 0, 28, 28>>, <<0, 0, 56, 56>>, <<10, 20, 122, 132>>,
      <<0, 0, 112, 112>>, <<0, 0, 223, 223>>, <<0, 0, 224, 224>>, <<0, 0, 448, 448>>,
      <<0, 0, 896, 896>> }

\* an int / a float as output_size, and tuples of them
PyInt(v) == [type |-> "int", v |-> v]
PyFloat(v) == [type |-> "float", v |-> v]
Scalar(e) == [tuple |-> FALSE, elems |-> <<e>>]
Tuple(es) == [tuple |-> TRUE, elems |-> es]

\* config.pooler_resolution
pooler_resolution == Scalar(PyInt(7))

\* the scales of the feature maps p2..p5, of p3 and p4, and of p2 alone
PoolerScales ==
    { << <<1, 4>>, <<1, 8>>, <<1, 16>>, <<1, 32>> >>,
      << <<1, 8>>, <<1, 16>> >>,
      << <<1, 4>> >> }

\* ------------------------------------------------------------------- spec
\* nothing has run yet
Fresh ==
    /\ step = 0
    /\ time = None
    /\ time_next = None
    /\ img = None
    /\ outputs_class = None
    /\ outputs_coord = None
    /\ keep_idx = None
    /\ num_remain = None
    /\ pred_noise = None
    /\ x_start = None
    /\ ensemble_score = <<>>
    /\ ensemble_label = <<>>
    /\ ensemble_coord = <<>>
    /\ result = None
    /\ head_calls = 0
    /\ head_x_shape = None
    /\ head_t = None
    /\ randn_draws = 0
    /\ ddim_updates = 0
    /\ nms_runs = 0
    /\ gt_boxes = None
    /\ select_mask = None
    /\ pdc_x_start = None
    /\ diff_boxes = None
    /\ pdc_t = None
    /\ rng_sources = {}
    /\ call_op = None
    /\ call_in = None
    /\ call_out = None

Idle ==
    /\ pc = "idle"
    /\ Fresh

\* DiffusionDet.__init__, lines 73-116, and the batch of one call
Init ==
    /\ num_proposals \in 1..MaxProposals
    /\ sampling_timesteps \in 1..MaxSteps
    /\ bs \in 1..MaxBatch
    /\ use_nms \in BOOLEAN
    /\ use_focal \in BOOLEAN
    /\ num_proposals * Max(bs, sampling_timesteps) <= MaxRows
    /\ Idle

Next ==
    \/ DdimBegin
    \/ DdimStep
    \/ DdimReturn
    \/ PrepareDiffusionConcat

Spec == Init /\ [][Next]_vars

\* the loop of ddim_sample reduced to its control: the pairs it walks and the
\* head call of each, for every sampling_timesteps up to num_timesteps
InitTimes ==
    /\ num_proposals = 1
    /\ sampling_timesteps \in 1..num_timesteps
    /\ bs = 1
    /\ use_nms = FALSE
    /\ use_focal = FALSE
    /\ pc = "times"
    /\ step = 1
    /\ time = None
    /\ time_next = None
    /\ img = None
    /\ outputs_class = None
    /\ outputs_coord = None
    /\ keep_idx = None
    /\ num_remain = None
    /\ pred_noise = None
    /\ x_start = None
    /\ ensemble_score = <<>>
    /\ ensemble_label = <<>>
    /\ ensemble_coord = <<>>
    /\ result = None
    /\ head_calls = 0
    /\ head_x_shape = None
    /\ head_t = None
    /\ randn_draws = 0
    /\ ddim_updates = 0
    /\ nms_runs = 0
    /\ gt_boxes = None
    /\ select_mask = None
    /\ pdc_x_start = None
    /\ diff_boxes = None
    /\ pdc_t = None
    /\ rng_sources = {}
    /\ call_op = None
    /\ call_in = None
    /\ call_out = None

\* lines 166-169: the next pair, time_cond and the head call on it
ForTimePair ==
    /\ pc = "times"
    /\ HasPair(sampling_timesteps, step)
    /\ time' = TimePairs(sampling_timesteps)[step][1]
    /\ time_next' = TimePairs(sampling_timesteps)[step][2]
    /\ head_t' = [b \in 1..bs |-> TimePairs(sampling_timesteps)[step][1]]
    /\ head_calls' = head_calls + 1
    /\ step' = step + 1
    /\ UNCHANGED <<pc, img, outputs_class, outputs_coord, keep_idx, num_remain,
                   pred_noise, x_start, ensemble_score, ensemble_label,
                   ensemble_coord, result, head_x_shape, randn_draws,
                   ddim_updates, nms_runs, rng_sources>>
    /\ UNCHANGED cfgVars
    /\ UNCHANGED callVars
    /\ UNCHANGED pdcVars

\* line 166: the pairs are used up
ForExhausted ==
    /\ pc = "times"
    /\ ~HasPair(sampling_timesteps, step)
    /\ pc' = "times_done"
    /\ UNCHANGED sampleVars
    /\ UNCHANGED rng_sources
    /\ UNCHANGED cfgVars
    /\ UNCHANGED callVars
    /\ UNCHANGED pdcVars

NextTimes ==
    \/ ForTimePair
    \/ ForExhausted

SpecTimes == InitTimes /\ [][NextTimes]_vars

\* the scales a pooler may be built with: 1/4, 1/8, 1/16, then 1/3 (no
\* power of two), 2 (level -1) and 0 (outside the domain of log2)
ScaleValues == { <<1, 4>>, <<1, 8>>, <<1, 16>>, <<1, 3>>, <<2, 1>>, <<0, 1>> }

ScaleLists == UNION { [1..n -> ScaleValues] : n \in 0..MaxScales }

\* values handed as output_size: 7, (7, 7), (7,), (7, 7.0), 7.0
OutputSizes ==
    { Scalar(PyInt(7)), Tuple(<<PyInt(7), PyInt(7)>>), Tuple(<<PyInt(7)>>),
      Tuple(<<PyInt(7), PyFloat(7)>>), Scalar(PyFloat(7)) }

\* values handed as canonical_box_size
BoxSizes == { canonical_box_size, 0, 0 - canonical_box_size }

\* the rows of self.bboxes_delta(reg_feature): no change; a shift by one
\* width and a doubled width; a shift up and a halved height; a dw beyond
\* scale_clamp
DeltaRows ==
    { <<0, 0, 0, 0>>, <<2, 0, 1, 0>>, <<0, 0 - 2, 0, 0 - 1>>, <<0, 0, 7, 0>> }

\* the boxes handed to apply_deltas
DeltaBoxes ==
    { <<5, 5, 5, 5>>, <<10, 20, 122, 132>>, <<0, 0, 223, 223>>, <<3, 4, 10, 9>> }

\* rows of x_start, within [-scale, scale], and rows of noise
StartRows ==
    { << <<0, 1>>, <<0, 1>>, <<0, 1>>, <<0, 1>> >>,
      << <<0 - 2, 1>>, <<1, 2>>, <<2, 1>>, <<1, 1>> >>,
      << <<1, 3>>, <<0 - 1, 1>>, <<3, 2>>, <<0 - 3, 4>> >> }

NoiseRows ==
    { << <<0, 1>>, <<0, 1>>, <<0, 1>>, <<0, 1>> >>,
      << <<1, 1>>, <<0 - 1, 2>>, <<3, 1>>, <<0, 1>> >>,
      << <<0 - 5, 2>>, <<2, 3>>, <<1, 7>>, <<0 - 1, 1>> >> }

\* ---------------------------------------------------------- the lone calls
\* what a lone call leaves alone
restVars == <<cfgVars, sampleVars, pdcVars, rng_sources>>

\* self.pooler(features, bboxes) of DiffusionDetHead.forward, on the pooler
\* DiffusionDetHead.__init__ builds
CallRoiPoolerForward ==
    /\ pc = "call"
    /\ \E B \in 1..MaxBatch, N \in 1..MaxPoolBoxes, scales \in PoolerScales :
        /\ B * N <= MaxPoolBoxes
        /\ \E bboxes \in [1..B -> [1..N -> PoolBoxes]] :
            LET pooler == RoiPoolerInit(pooler_resolution, scales,
                                        canonical_box_size, canonical_level)
            IN /\ call_op' = "ROIPooler.forward"
               /\ call_in' = [pooler |-> pooler, bboxes |-> bboxes]
               /\ call_out' = RoiPoolerForward(pooler, Len(scales), B, bboxes)
    /\ pc' = "returned"
    /\ UNCHANGED restVars

\* assign_boxes_to_levels(bboxes, self.min_level, ...), line 369
CallAssignBoxesToLevels ==
    /\ pc = "call"
    /\ \E B \in 1..MaxBatch, N \in 1..MaxPoolBoxes, scales \in PoolerScales :
        /\ B * N <= MaxPoolBoxes
        /\ \E bboxes \in [1..B -> [1..N -> PoolBoxes]] :
            LET pooler == RoiPoolerInit(pooler_resolution, scales,
                                        canonical_box_size, canonical_level)
            IN /\ call_op' = "assign_boxes_to_levels"
               /\ call_in' = [pooler |-> pooler, bboxes |-> bboxes]
               /\ call_out' = AssignBoxesToLevels(bboxes, pooler.min_level,
                                  pooler.max_level, pooler.canonical_box_size,
                                  pooler.canonical_level)
    /\ pc' = "returned"
    /\ UNCHANGED restVars

\* ROIPooler(output_size, scales, sampling_ratio, canonical_box_size)
CallRoiPoolerInit ==
    /\ pc = "call"
    /\ \E output_size \in OutputSizes, scales \in ScaleLists, box_size \in BoxSizes :
        /\ call_op' = "ROIPooler.__init__"
        /\ call_in' = [output_size |-> output_size, scales |-> scales,
                       canonical_box_size |-> box_size]
        /\ call_out' = RoiPoolerInit(output_size, scales, box_size, canonical_level)
    /\ pc' = "returned"
    /\ UNCHANGED restVars

\* self.apply_deltas(bboxes_deltas, bboxes.view(-1, 4)), line 276
CallApplyDeltas ==
    /\ pc = "call"
    /\ \E n \in 1..MaxDeltaRows :
        \E deltas \in [1..n -> DeltaRows], boxes \in [1..n -> DeltaBoxes] :
            /\ call_op' = "apply_deltas"
            /\ call_in' = [deltas |-> deltas, boxes |-> boxes]
            /\ call_out' = ApplyDeltas(deltas, boxes)
    /\ pc' = "returned"
    /\ UNCHANGED restVars

\* predict_noise_from_start(q_sample(x_start, t, noise), t, x_start)
CallQSample ==
    /\ pc = "call"
    /\ \E t \in 0..(MaxT - 1), xs \in StartRows, noise \in NoiseRows :
        LET x_t == QSample(xs, t, noise)
        IN /\ call_op' = "q_sample"
           /\ call_in' = [x_start |-> xs, t |-> t, noise |-> noise]
           /\ call_out' = [x_t |-> x_t,
                           pred_noise |-> PredictNoiseFromStart(x_t, t, xs)]
    /\ pc' = "returned"
    /\ UNCHANGED restVars

\* self.head(backbone_feats, x_boxes, t), line 140 of modeling_diffusiondet.py
CallHeadForward ==
    /\ pc = "call"
    /\ \E num_head \in 1..MaxHeads, id \in {"x_boxes", "targets"},
          t \in TimestepDraws, deep_supervision \in BOOLEAN :
        /\ call_op' = "HeadDynamicK.forward"
        /\ call_in' = [num_head |-> num_head, bboxes |-> CallerBoxes(id), t |-> t,
                       return_intermediate |-> deep_supervision]
        /\ call_out' = HeadForward(num_head, CallerBoxes(id), t, deep_supervision)
    /\ pc' = "returned"
    /\ UNCHANGED restVars

InitCalls ==
    /\ num_proposals = 1
    /\ sampling_timesteps = 1
    /\ bs = 1
    /\ use_nms = FALSE
    /\ use_focal = FALSE
    /\ pc = "call"
    /\ Fresh

NextCalls ==
    \/ CallRoiPoolerForward
    \/ CallAssignBoxesToLevels
    \/ CallRoiPoolerInit
    \/ CallApplyDeltas
    \/ CallQSample
    \/ CallHeadForward

SpecCalls == InitCalls /\ [][NextCalls]_vars

\* ================================================================= claims
Rows(x) == {Len(x[b]) : b \in 1..Len(x)}

\* C1: every box state handed to the head holds exactly num_proposals boxes
\* per image: the state the loop is about to pass on, and the shape recorded
\* at each call that was made.
C1_HeadInputFull ==
    /\ head_calls >= 1 /\ pc \in {"loop", "done", "raised"}
          => head_x_shape = <<bs, num_proposals, 4>>
    /\ pc = "loop" /\ HasPair(sampling_timesteps, step)
          => Len(img) = bs /\ Rows(img) = {num_proposals}

\* a head call is due on a state whose boxes were all dropped and all renewed
C1_Witness ==
    /\ pc = "loop"
    /\ HasPair(sampling_timesteps, step)
    /\ step >= 2
    /\ num_proposals = MaxProposals
    /\ \A i \in 1..num_proposals : img[1][i].of = "renew"

\* C2 as stated: after every step of the loop, the terminal one included,
\* img holds exactly num_proposals boxes.
C2_AfterEveryStep ==
    pc \in {"loop", "done"} /\ head_calls >= 1 => Rows(img) = {num_proposals}

\* C2 amended: after every step with t_next >= 0 from which the loop goes on,
\* img holds exactly num_proposals boxes per image, whatever the filter
\* dropped; after the terminal step it holds the num_remain <= num_proposals
\* boxes that passed the filter.
C2_AfterNonTerminalStep ==
    pc \in {"loop", "done"} /\ head_calls >= 1 =>
        /\ Len(img) = bs
        /\ num_remain <= num_proposals
        /\ IF time_next >= 0 THEN Rows(img) = {num_proposals}
           ELSE Rows(img) = {num_remain}

\* a non-terminal step in which the filter dropped every proposal
C2_Witness ==
    /\ pc = "loop"
    /\ head_calls >= 1
    /\ time_next >= 0
    /\ num_remain = 0
    /\ Len(img[1]) = num_proposals

\* C3: with S > 1 the ensemble buffers hold S entries, one per step, when they
\* are concatenated after the loop.
C3_EveryStepAppends ==
    pc = "done" /\ sampling_timesteps > 1 =>
        /\ Len(ensemble_coord) = sampling_timesteps
        /\ Len(ensemble_score) = sampling_timesteps
        /\ Len(ensemble_label) = sampling_timesteps

\* C4: for every S in 1..T the loop walks exactly S pairs (t, t_next), each
\* with t_next < t and t in 0..T-1, the first t being T-1, each t the t_next
\* of the pair before, -1 being the t_next of the last pair and of no other,
\* with one head call per pair.
C4_TimePairs ==
    /\ head_calls >= 1 =>
        /\ head_calls <= sampling_timesteps
        /\ time_next < time
        /\ time \in 0..(num_timesteps - 1)
        /\ time_next >= -1
        /\ head_t = [b \in 1..bs |-> time]
        /\ head_calls = 1 => time = num_timesteps - 1
        /\ head_calls > 1 => time = TimePairs(sampling_timesteps)[head_calls - 1][2]
        /\ time_next = -1 <=> head_calls = sampling_timesteps
    /\ pc \in {"times_done", "done"} => head_calls = sampling_timesteps

\* the walk over all T pairs of S = T has ended
C4_Witness ==
    /\ pc = "times_done"
    /\ sampling_timesteps = num_timesteps
    /\ head_calls = num_timesteps
    /\ time = 0
    /\ time_next = -1

\* C5: with S = 1 there is one head call and the value returned is the
\* single-shot result on that call's logits and boxes: one entry per image,
\* suppressed per image when use_nms is set; the ensemble buffers are empty
\* and no suppression across steps was run.
C5_SingleShot ==
    pc = "done" /\ sampling_timesteps = 1 =>
        /\ head_calls = 1
        /\ ensemble_coord = <<>> /\ ensemble_score = <<>> /\ ensemble_label = <<>>
        /\ nms_runs = 0
        /\ result.kind = "lists"
        /\ Len(result.box_pred) = bs /\ Len(result.scores) = bs
        /\ Len(result.labels) = bs
        /\ \A b \in 1..bs :
             LET d == InferencePerImage(outputs_class[b], outputs_coord[b],
                                        num_proposals, use_focal, use_nms)
             IN /\ result.box_pred[b] = d.box_pred
                /\ result.scores[b] = d.scores
                /\ result.labels[b] = d.labels

\* a single-step run whose per-image suppression removed a box
C5_Witness ==
    /\ pc = "done"
    /\ sampling_timesteps = 1
    /\ use_nms
    /\ num_proposals = MaxProposals
    /\ Len(result.box_pred[1]) < num_proposals

\* C6: with S > 1 and use_nms the returned set has no two boxes of one class
\* with intersection-over-union above 0.5, every returned box with its score
\* and label is one of the accumulated ones, and at most num_proposals * S
\* boxes were accumulated.
C6_DuplicateFree ==
    pc = "done" /\ sampling_timesteps > 1 /\ use_nms =>
        LET n   == Len(result.box_pred)
            acc == [box_pred |-> Flatten(ensemble_coord),
                    scores   |-> Flatten(ensemble_score),
                    labels   |-> Flatten(ensemble_label)]
        IN /\ Len(result.scores) = n
           /\ Len(result.labels) = n
           /\ \A i, j \in 1..n :
                 i # j /\ result.labels[i] = result.labels[j]
                    => ~IoUAbove(result.box_pred[i], result.box_pred[j], <<1, 2>>)
           /\ \A i \in 1..n : \E m \in 1..Len(acc.box_pred) :
                 /\ result.box_pred[i] = acc.box_pred[m]
                 /\ result.scores[i] = acc.scores[m]
                 /\ result.labels[i] = acc.labels[m]
           /\ Len(acc.box_pred) <= num_proposals * sampling_timesteps

\* suppression across steps removed some boxes and kept more than one
C6_Witness ==
    /\ pc = "done"
    /\ sampling_timesteps > 2
    /\ use_nms
    /\ Len(result.box_pred) >= 2
    /\ Len(result.box_pred) < Len(Flatten(ensemble_coord))

\* C7: the step whose t_next < 0 is the last one: after it img is the
\* filtered x_start, no pair is left and no head call follows, and it drew no
\* noise and computed no DDIM update (every earlier step drew two noises and
\* computed one update); the loop is left only after such a step.
C7_TerminalStep ==
    /\ head_calls >= 1 /\ time_next < 0 =>
        /\ pc \in {"loop", "done", "times", "times_done"}
        /\ ~HasPair(sampling_timesteps, step)
        /\ head_calls = sampling_timesteps
        /\ pc \in {"loop", "done"} =>
              /\ img = x_start
              /\ img = MaskRows(XStartRows(outputs_coord), keep_idx)
              /\ randn_draws = 1 + 2 * (head_calls - 1)
              /\ ddim_updates = head_calls - 1
    /\ pc = "done" => time_next < 0

\* the state left by the terminal step of a run of several steps, part of
\* the proposals dropped by the filter
C7_Witness ==
    /\ pc = "loop"
    /\ head_calls >= 2
    /\ time_next < 0
    /\ num_remain > 0
    /\ num_remain < num_proposals
    /\ Len(img[1]) = num_remain

\* number of images a returned value has a result for
ResultImages(r) == IF r.kind = "lists" THEN Len(r.box_pred) ELSE 1

\* C8: a sampling run on a batch of B images returns, and returns a result
\* for each of the B images.
C8_OnePerImage ==
    /\ pc # "raised"
    /\ pc = "done" => ResultImages(result) = bs

\* C9: with fewer than num_proposals ground-truth boxes x_start has
\* num_proposals boxes, the ground truth first and in order (the full-image
\* box for an empty ground truth), then placeholders of width and height at
\* least 1e-4.
C9_Padding ==
    pc = "prepared" /\ Len(gt_boxes) < num_proposals =>
        LET m == Max(Len(gt_boxes), 1)
        IN /\ Len(pdc_x_start) = num_proposals
           /\ \A j \in 1..m :
                 pdc_x_start[j] = IF Len(gt_boxes) = 0
                                  THEN <<HalfCoord, HalfCoord, FullCoord, FullCoord>>
                                  ELSE gt_boxes[j]
           /\ \A j \in (m + 1)..num_proposals :
                 /\ pdc_x_start[j][3] >= Eps /\ pdc_x_start[j][3] > 0
                 /\ pdc_x_start[j][4] >= Eps /\ pdc_x_start[j][4] > 0

\* an empty ground truth, padded with a placeholder whose drawn width was
\* negative and whose drawn height was zero
C9_Witness ==
    /\ pc = "prepared"
    /\ Len(gt_boxes) = 0
    /\ num_proposals = MaxProposals
    /\ pdc_x_start[num_proposals] = <<5000, 5000, Eps, Eps>>

\* C10: with more than num_proposals ground-truth boxes x_start is
\* num_proposals of them, each index taken at most once, in their original
\* order; with exactly num_proposals it is the ground truth; and the diffused
\* set returned has num_proposals boxes in every case.
C10_Subsample ==
    /\ pc # "pdc_raised"
    /\ pc = "prepared" =>
        LET n == Len(gt_boxes)
            N == num_proposals
        IN /\ Len(diff_boxes) = N
           /\ n = N => pdc_x_start = gt_boxes
           /\ n > N =>
                /\ Len(pdc_x_start) = N
                /\ Len(select_mask) = n
                /\ \E f \in [1..N -> 1..n] :
                      /\ \A i, j \in 1..N : i < j => f[i] < f[j]
                      /\ \A j \in 1..N : select_mask[f[j]]
                                         /\ pdc_x_start[j] = gt_boxes[f[j]]
                      /\ \A i \in 1..n : select_mask[i] => \E j \in 1..N : f[j] = i

\* a subsample that is no prefix: the first box dropped, the last one kept
C10_Witness ==
    /\ pc = "prepared"
    /\ Len(gt_boxes) = MaxGT
    /\ num_proposals = MaxProposals
    /\ ~select_mask[1]
    /\ select_mask[MaxGT]
    /\ Len(diff_boxes) = num_proposals

\* C11: the pooler returns one tile per input box, in the input order: tile i
\* is cut for the i-th box of the image-major flattening, from the feature
\* map of that box's image; with several levels every box index lies in the
\* index set of exactly one level, so no position is left unwritten or
\* written twice.
C11_OneTilePerBox ==
    call_op = "ROIPooler.forward" =>
        LET bboxes == call_in.bboxes
            pooler == call_in.pooler
            N      == Len(bboxes[1])
            num    == Len(pooler.level_poolers)
            assign == AssignBoxesToLevels(bboxes, pooler.min_level,
                          pooler.max_level, pooler.canonical_box_size,
                          pooler.canonical_level)
        IN /\ ~call_out.raised
           /\ Len(call_out.output) = Len(bboxes) * N
           /\ \A b \in 1..Len(bboxes) : \A n \in 1..N :
                 LET tile == call_out.output[(b - 1) * N + n]
                 IN /\ tile.box = bboxes[b][n]
                    /\ tile.image = b - 1
                    /\ tile.level \in 0..(num - 1)
                    /\ num > 1 => tile.level = assign[(b - 1) * N + n]
           /\ \A i \in 1..(Len(bboxes) * N) :
                 Cardinality({l \in 0..(num - 1) :
                     \E k \in 1..Len(Nonzero(assign, l)) :
                         Nonzero(assign, l)[k] = i}) = 1

\* two images pooled from several levels, a later box on a lower level than
\* an earlier one
C11_Witness ==
    /\ call_op = "ROIPooler.forward"
    /\ Len(call_in.bboxes) = 2
    /\ Len(call_in.pooler.level_poolers) > 1
    /\ ~call_out.raised
    /\ call_out.output[1].level > call_out.output[2].level
    /\ call_out.output[2].image = 1

\* width and height of a corner-form box
Sides(b) == <<b[3] - b[1], b[4] - b[2]>>

\* C12: every box gets exactly one level index in 0..(max_level - min_level);
\* the index depends on the size of the box alone, so two boxes of one size
\* get one index wherever they stand in the batch; and a box with both sides
\* doubled never gets a lower index.
C12_LevelOfSize ==
    call_op = "assign_boxes_to_levels" =>
        LET boxes == ConvertBoxesToPoolerFormat(call_in.bboxes)
            top   == call_in.pooler.max_level - call_in.pooler.min_level
        IN /\ Len(call_out) = Len(boxes)
           /\ \A i \in 1..Len(boxes) : call_out[i] \in 0..top
           /\ \A i, j \in 1..Len(boxes) :
                 /\ Sides(boxes[i].box) = Sides(boxes[j].box)
                        => call_out[i] = call_out[j]
                 /\ (/\ Sides(boxes[j].box)[1] = 2 * Sides(boxes[i].box)[1]
                     /\ Sides(boxes[j].box)[2] = 2 * Sides(boxes[i].box)[2])
                        => call_out[j] >= call_out[i]

\* two boxes of one size at different places of the batch, and between them
\* a box of twice their size, one level higher
C12_Witness ==
    /\ call_op = "assign_boxes_to_levels"
    /\ Len(call_out) = 3
    /\ call_in.bboxes[1][1] = <<10, 20, 122, 132>>
    /\ call_in.bboxes[1][2] = <<0, 0, 224, 224>>
    /\ call_in.bboxes[1][3] = <<0, 0, 112, 112>>
    /\ call_in.pooler.min_level = 2
    /\ call_out = <<1, 2, 1>>

\* the scales are 1/2^k, 1/2^(k+1), ... for one level k >= 0
ConsistentScales(scales) ==
    /\ scales # <<>>
    /\ \E k \in 0..5 : \A i \in 1..Len(scales) : scales[i] = <<1, 2^(k + i - 1)>>

\* an int, or a tuple of two ints
ValidOutputSize(output_size) ==
    \/ ~output_size.tuple /\ output_size.elems[1].type = "int"
    \/ /\ output_size.tuple
       /\ Len(output_size.elems) = 2
       /\ \A k \in 1..2 : output_size.elems[k].type = "int"

\* C13: the construction of a pooler raises for every inconsistent
\* configuration: scales that are not the reciprocals of the powers of two of
\* contiguous increasing integer levels, at any position of the list, or a
\* canonical box size <= 0, or an output size that is neither an int nor a
\* tuple of two ints.
C13_RejectsInconsistent ==
    call_op = "ROIPooler.__init__" =>
        ((\/ ~ConsistentScales(call_in.scales)
          \/ call_in.canonical_box_size <= 0
          \/ ~ValidOutputSize(call_in.output_size))
            => call_out.raised)

\* C14: apply_deltas with an all-zero delta row returns the box of that row
\* unchanged (in quarters: four times each coordinate), whatever the other
\* rows hold; the weights are (2, 2, 1, 1).
C14_ZeroDelta ==
    call_op = "apply_deltas" =>
        /\ bbox_weights = <<2, 2, 1, 1>>
        /\ \A i \in 1..Len(call_in.boxes) :
              call_in.deltas[i] = <<0, 0, 0, 0>>
                  => call_out[i] = [c \in 1..4 |-> 4 * call_in.boxes[i][c]]

\* a zero delta on a box that is no square and does not start at the origin
C14_Witness ==
    /\ call_op = "apply_deltas"
    /\ call_in.boxes[1] = <<3, 4, 10, 9>>
    /\ call_in.deltas[1] = <<0, 0, 0, 0>>
    /\ call_out[1] = <<12, 16, 40, 36>>

\* C15: every random draw of a run (initial noise, DDIM step noise, renewal
\* noise, timestep, forward noise, padding noise, subsampling choice) is made
\* from one and the same generator, so that seeding that generator fixes the
\* outputs.
C15_SingleSource == Cardinality(rng_sources) <= 1

\* C16: for every timestep t, clean row x0 and noise eps, the noise predicted
\* from x_t = q_sample(x0, t, eps) and x0 at t is eps again.
C16_RoundTrip ==
    call_op = "q_sample" => call_out.pred_noise = call_in.noise

\* a round trip at the last timestep drawn, with x_t different from both the
\* clean row and the noise
C16_Witness ==
    /\ call_op = "q_sample"
    /\ call_in.t = MaxT - 1
    /\ call_in.noise[1] # <<0, 1>>
    /\ call_out.x_t # call_in.x_start
    /\ call_out.x_t # call_in.noise
    /\ call_out.pred_noise = call_in.noise

RECURSIVE RefinedBy(_, _, _)
\* the boxes after stages 1..k, each stage fed the boxes of the one before
\* and all of them the embedding time_emb
RefinedBy(k, bboxes, time_emb) ==
    IF k = 0 THEN bboxes
    ELSE [of |-> "pred_bboxes", stage |-> k, time |-> <<time_emb>>,
          input |-> <<RefinedBy(k - 1, bboxes, time_emb)>>]

\* C17: the head runs its num_head stages in order, all on the one embedding
\* of t; stage 1 gets the caller's boxes and stage k > 1 the refined boxes of
\* stage k - 1.  With deep supervision the result stacks the num_head stage
\* outputs, without it it holds the last stage's alone, so that its last
\* entry is the last stage's output either way.
C17_StageChain ==
    call_op = "HeadDynamicK.forward" =>
        LET H    == call_in.num_head
            n    == Len(call_out.pred_bboxes)
            emb  == TimeMlp(call_in.t)
        IN /\ n = (IF call_in.return_intermediate THEN H ELSE 1)
           /\ Len(call_out.class_logits) = n
           /\ call_out.pred_bboxes[n] = RefinedBy(H, call_in.bboxes, emb)
           /\ call_out.class_logits[n].stage = H
           /\ call_out.class_logits[n].time = <<emb>>
           /\ call_out.class_logits[n].input
                 = <<RefinedBy(H - 1, call_in.bboxes, emb)>>
           /\ call_in.return_intermediate =>
                 \A k \in 1..H :
                    /\ call_out.pred_bboxes[k] = RefinedBy(k, call_in.bboxes, emb)
                    /\ call_out.class_logits[k].stage = k
                    /\ call_out.class_logits[k].input
                          = <<RefinedBy(k - 1, call_in.bboxes, emb)>>

\* a head of several stages without deep supervision: one entry, the output
\* of the last stage, which got refined boxes
C17_Witness ==
    /\ call_op = "HeadDynamicK.forward"
    /\ call_in.num_head = MaxHeads
    /\ ~call_in.return_intermediate
    /\ Len(call_out.pred_bboxes) = 1
    /\ call_out.pred_bboxes[1].stage = MaxHeads
    /\ call_out.pred_bboxes[1].input[1].stage = MaxHeads - 1

\* the positions a mask keeps, in increasing order
Kept(mask) == SelectSeq([i \in 1..Len(mask) |-> i], LAMBDA i : mask[i])

\* C18: after every non-terminal step the loop goes on from, the proposals
\* that passed the filter stand at positions 1..num_remain of the next
\* state, in the order they had; position j is computed from row j of
\* pred_noise, of x_start and of img after one and the same mask, all three
\* rows of the j-th kept proposal; the num_proposals - num_remain renewed
\* boxes follow.
C18_SurvivorsFirst ==
    (pc = "loop" /\ head_calls >= 1 /\ ~IsTerminal(time_next)) =>
        \A b \in 1..Len(img) :
            /\ Len(img[b]) = num_proposals
            /\ Len(Kept(keep_idx)) = num_remain
            /\ Len(x_start[b]) = num_remain
            /\ Len(pred_noise[b]) = num_remain
            /\ \A j \in 1..num_remain :
                  /\ img[b][j].of = "ddim"
                  /\ img[b][j].x_start = Kept(keep_idx)[j]
                  /\ img[b][j].pred_noise = Kept(keep_idx)[j]
                  /\ img[b][j].img = Kept(keep_idx)[j]
                  /\ x_start[b][j].prop = Kept(keep_idx)[j]
                  /\ pred_noise[b][j].prop = Kept(keep_idx)[j]
            /\ \A j \in (num_remain + 1)..num_proposals : img[b][j].of = "renew"

\* the first proposal dropped and the second kept: the survivor moves to
\* position 1 and a renewed box follows it
C18_Witness ==
    /\ pc = "loop"
    /\ head_calls >= 1
    /\ ~IsTerminal(time_next)
    /\ keep_idx = <<FALSE, TRUE>>
    /\ img[1][1].of = "ddim"
    /\ img[1][1].img = 2
    /\ img[1][2].of = "renew"

\* the mask of image b by the scores of its own proposals
OwnMask(cls, b) ==
    [i \in 1..Len(cls[b]) |-> ScoreGT(MaxScore(cls[b][i]), threshold)]

\* C19: in every step, for every image b of the batch, proposal i of image b
\* is kept exactly if the highest class confidence of that proposal is
\* above 0.5; and in every non-terminal step the renewal gives every image
\* its num_proposals boxes again, so the loop goes on.
C19_PerImageFilter ==
    head_calls >= 1 =>
        \A b \in 1..bs :
            /\ [j \in 1..Len(x_start[b]) |-> x_start[b][j].prop]
                  = Kept(OwnMask(outputs_class, b))
            /\ ~IsTerminal(time_next) =>
                  (pc = "loop" /\ Len(img[b]) = num_proposals)

====
